---- MODULE Spec2Model ----
(***************************************************************************)
(* A model of CMakeRIO's main.py: the vendor-manifest loader, the          *)
(* dependency installer, the compile-flags generator, the include          *)
(* aggregator and the entry point that sequences them.                     *)
(*                                                                         *)
(* Text is modelled as Python sees it: a string is a sequence of           *)
(* one-character strings, and every string operation of the program        *)
(* (in, index, slicing, replace, lower, split, join, os.path.join,         *)
(* relpath) is computed on those characters.  The file system is a map     *)
(* from the absolute path of each file to its content; a directory exists  *)
(* when it is one of the directories outside the cache or when a file      *)
(* lies below it.  os.listdir and os.walk return names in an order that    *)
(* is a fixed function of the names (here: sorted).  Printing to stdout    *)
(* is not modelled.                                                        *)
(***************************************************************************)
EXTENDS Integers, Sequences, FiniteSets, TLC

VARIABLES
    argv,          \* sys.argv: the script name, then the positional arguments
    VENDORDEPS,    \* the vendor manifests loaded from vendordeps/
    server,        \* artifact names for which the remote serves <name>-<version>-headers.zip
    fs,            \* the file system: absolute path of a file |-> its content
    pc,            \* where the script is
    dependencies,  \* install(): the list being built, then iterated
    v,             \* install(): number of manifests already processed
    i,             \* install(): number of dependencies already installed
    requested,     \* the URLs handed to urlopen in this run, in order
    calls,         \* the functions the entry point has called in this run, in order
    exc,           \* the unhandled exception that ended the run, or "none"
    startfs,       \* the file system as this run found it
    history        \* one record per earlier run of the tool

vars ==
    <<argv, VENDORDEPS, server, fs, pc, dependencies, v, i, requested, calls, exc,
      startfs, history>>

----------------------------------------------------------------------------
(* Bounds of the model. *)

\* How many times the tool is run in a row.
MaxRuns == 2
\* How many vendor manifests vendordeps/ holds at most.
MaxManifests == 2
\* How many entries a manifest's cppDependencies holds at most.
MaxEntries == 2
\* How many header files a cache that exists at start holds at most.
MaxFiles == 2
\* How many lines an exportedHeaders block of build.gradle holds at most.
MaxRows == 2

----------------------------------------------------------------------------
(* Python's str operations, on sequences of characters. *)

\* s[a:]
From(s, a) == SubSeq(s, a + 1, Len(s))

\* s[:b]
Upto(s, b) == SubSeq(s, 1, b)

\* s.startswith(part)
StartsWith(s, part) == Len(part) <= Len(s) /\ SubSeq(s, 1, Len(part)) = part

\* s.endswith(part)
EndsWith(s, part) ==
    Len(part) <= Len(s) /\ SubSeq(s, Len(s) - Len(part) + 1, Len(s)) = part

\* Whether part occurs in s at the zero-based offset k.
OccursAt(s, part, k) ==
    k + Len(part) <= Len(s) /\ SubSeq(s, k + 1, k + Len(part)) = part

\* s.index(part), zero-based; -1 stands for the ValueError Python raises.
Index(s, part) ==
    LET hits == {k \in 0..(Len(s) - Len(part)) : OccursAt(s, part, k)}
    IN  IF hits = {} THEN -1 ELSE CHOOSE k \in hits : \A j \in hits : k <= j

\* part in s
In(part, s) == Index(s, part) # -1

RECURSIVE Replace(_, _, _)
\* s.replace(old, new), old not empty
Replace(s, old, new) ==
    LET k == Index(s, old)
    IN  IF k = -1 THEN s
        ELSE Upto(s, k) \o new \o Replace(From(s, k + Len(old)), old, new)

UPPERCASE == <<"A","B","C","D","E","F","G","H","I","J","K","L","M","N","O","P","Q","R","S","T","U","V","W","X","Y","Z">>
LOWERCASE == <<"a","b","c","d","e","f","g","h","i","j","k","l","m","n","o","p","q","r","s","t","u","v","w","x","y","z">>

LowerChar(c) ==
    IF \E k \in 1..Len(UPPERCASE) : UPPERCASE[k] = c
    THEN LOWERCASE[CHOOSE k \in 1..Len(UPPERCASE) : UPPERCASE[k] = c]
    ELSE c

\* s.lower()
Lower(s) == [k \in 1..Len(s) |-> LowerChar(s[k])]

\* s.removesuffix(suffix)
RemoveSuffix(s, suffix) ==
    IF suffix # <<>> /\ EndsWith(s, suffix) THEN Upto(s, Len(s) - Len(suffix)) ELSE s

RECURSIVE Split(_, _)
\* s.split(sep)
Split(s, sep) ==
    LET k == Index(s, sep)
    IN  IF k = -1 THEN <<s>>
        ELSE <<Upto(s, k)>> \o Split(From(s, k + Len(sep)), sep)

RECURSIVE Join(_, _)
\* sep.join(parts)
Join(sep, parts) ==
    IF parts = <<>> THEN <<>>
    ELSE IF Len(parts) = 1 THEN parts[1]
    ELSE parts[1] \o sep \o Join(sep, Tail(parts))

\* os.path.join(a, b) of posixpath
join(a, b) ==
    IF b # <<>> /\ b[1] = "/" THEN b
    ELSE IF a = <<>> \/ a[Len(a)] = "/" THEN a \o b
    ELSE a \o <<"/">> \o b

\* The order in which names are listed: by character, then by length.
CHARS == <<"\n"," ","!","\"","#","&","'","*","+","-",".","/","0","1","2","3","4","5","6","7","8","9",":","<","=",">","?","A","B","C","D","E","F","G","H","I","J","K","L","M","N","O","P","Q","R","S","T","U","V","W","X","Y","Z","\\","_","a","b","c","d","e","f","g","h","i","j","k","l","m","n","o","p","q","r","s","t","u","v","w","x","y","z","{","}","~">>

Rank(c) == CHOOSE k \in 1..Len(CHARS) : CHARS[k] = c

RECURSIVE Before(_, _)
Before(a, b) ==
    IF a = <<>> THEN b # <<>>
    ELSE IF b = <<>> THEN FALSE
    ELSE IF a[1] = b[1] THEN Before(Tail(a), Tail(b))
    ELSE Rank(a[1]) < Rank(b[1])

RECURSIVE Sorted(_)
Sorted(S) ==
    IF S = {} THEN <<>>
    ELSE LET first == CHOOSE a \in S : \A b \in S \ {a} : Before(a, b)
         IN  <<first>> \o Sorted(S \ {first})

RECURSIVE Flatten(_)
\* The concatenation of a sequence of sequences.
Flatten(ss) == IF ss = <<>> THEN <<>> ELSE ss[1] \o Flatten(Tail(ss))

Range(s) == {s[k] : k \in 1..Len(s)}

\* The sequences over S of length at most n.
SeqsUpTo(S, n) == UNION {[1..k -> S] : k \in 0..n}

----------------------------------------------------------------------------
(* Module level, lines 22-42. *)

NI_LIBRARIES == <<<<"v","i","s","a">>, <<"r","u","n","t","i","m","e">>, <<"n","e","t","c","o","m","m">>, <<"c","h","i","p","o","b","j","e","c","t">>>>

WPILIB_LIBRARIES ==
    <<<<"w","p","i","l","i","b","c">>, <<"w","p","i","u","t","i","l">>, <<"w","p","i","m","a","t","h">>, <<"n","t","c","o","r","e">>, <<"c","s","c","o","r","e">>, <<"h","a","l">>,
      <<"c","a","m","e","r","a","s","e","r","v","e","r">>>>

NI_VERSION == <<"2","0","2","2",".","2",".","3">>

WPILIB_VERSION == <<"2","0","2","2",".","1",".","1","-","b","e","t","a","-","2">>

\* expanduser("~")
HOME == <<"/","u">>

INSTALL_ROOT == join(HOME, <<".","w","p","i","l","i","b","-","h","e","a","d","e","r","s">>)

\* join(INSTALL_ROOT, "headers")
HEADERS == join(INSTALL_ROOT, <<"h","e","a","d","e","r","s">>)

\* The prefix of the fixed download locations of lines 128, 139 and 155.
FRCMAVEN == <<"h","t","t","p","s",":","/","/","f","r","c","m","a","v","e","n",".","w","p","i",".","e","d","u","/","u","i","/","a","p","i","/","v","1","/","d","o","w","n","l","o","a","d","?","r","e","p","o","K","e","y","=","r","e","l","e","a","s","e","&","p","a","t","h","=","e","d","u","/","w","p","i","/","f","i","r","s","t","/">>

----------------------------------------------------------------------------
(* The file system. *)

\* abspath("."), the directory the tool is started in.
CWD == <<"/","w">>

\* A project directory other than the current one, and a path that does not exist.
PROJ == <<"/","p">>
MISSING == <<"/","m">>

\* The directories outside the cache; they exist throughout.
OutsideDirs == {CWD, PROJ}

\* os.path.abspath(p)
abspath(p) ==
    IF p = <<".">> THEN CWD
    ELSE IF StartsWith(p, <<".","/">>) THEN join(CWD, From(p, 2))
    ELSE IF p # <<>> /\ p[1] = "/" THEN p
    ELSE join(CWD, p)

\* The files of F below directory d.
Below(F, d) == {f \in DOMAIN F : StartsWith(f, abspath(d) \o <<"/">>)}

\* os.path.isdir(p)
isdir(F, p) == abspath(p) \in OutsideDirs \/ Below(F, p) # {}

\* os.path.exists(p)
exists(F, p) == isdir(F, p) \/ abspath(p) \in DOMAIN F

\* dirname(p)
dirname(p) ==
    LET cuts == {k \in 1..Len(p) : p[k] = "/"}
    IN  IF cuts = {} THEN <<>>
        ELSE LET k == CHOOSE c \in cuts : \A j \in cuts : j <= c
             IN  IF k = 1 THEN <<"/">> ELSE Upto(p, k - 1)

\* def until(s, part, remove=False), lines 116-119
until(s, part, remove) ==
    IF ~In(part, s) THEN s
    ELSE Upto(s, Index(s, part) + (IF remove THEN 0 ELSE Len(part)))

\* The names os.listdir(d) returns for the directory d.
Names(F, d) ==
    {until(From(f, Len(abspath(d)) + 1), <<"/">>, TRUE) : f \in Below(F, d)}

\* os.listdir(d): the names, or the error it raises.
listdir(F, d) ==
    IF abspath(d) \in DOMAIN F THEN [err |-> "NotADirectoryError", names |-> <<>>]
    ELSE IF ~isdir(F, d) THEN [err |-> "FileNotFoundError", names |-> <<>>]
    ELSE [err |-> "none", names |-> Sorted(Names(F, d))]

\* open(path, "w").write(content): the file system after it, or the error raised.
write(F, path, content) ==
    LET p == abspath(path)
    IN  IF dirname(p) \in DOMAIN F THEN [err |-> "NotADirectoryError", fs |-> F]
        ELSE IF ~isdir(F, dirname(p)) THEN [err |-> "FileNotFoundError", fs |-> F]
        ELSE IF isdir(F, p) THEN [err |-> "IsADirectoryError", fs |-> F]
        ELSE [err |-> "none",
              fs |-> [f \in DOMAIN F \cup {p} |-> IF f = p THEN content ELSE F[f]]]

\* The sub-directories and the files of directory d, as os.walk splits them.
SubDirs(F, d) == {n \in Names(F, d) : join(d, n) \notin DOMAIN F}
FilesIn(F, d) == {n \in Names(F, d) : join(d, n) \in DOMAIN F}

RECURSIVE walk(_, _)
\* os.walk(top): <<root, directories, files>> of every directory, top down.
walk(F, top) ==
    LET dirs  == Sorted(SubDirs(F, top))
        files == Sorted(FilesIn(F, top))
    IN  <<[root |-> top, directories |-> dirs, files |-> files]>>
        \o Flatten([k \in 1..Len(dirs) |-> walk(F, join(top, dirs[k]))])

----------------------------------------------------------------------------
(* class Dependency, lines 45-79. *)

\* Dependency.get: the URL it hands to urlopen.
ArchiveUrl(dep, part) ==
    dep.url \o <<"/">> \o dep.name \o <<"/">> \o dep.version \o <<"/">> \o dep.name
        \o <<"-">> \o dep.version \o <<"-">> \o part \o <<".","z","i","p">>

\* The member files of a headers archive the remote serves.
ARCHIVE == {<<"a",".","h">>, <<"i","n","c","/","b",".","h">>}

\* What urlopen and ZipFile can do for a request: the archive, an HTTP error
\* status when the remote has no such archive, and at any time a transport
\* error (URLError) or a body that is no zip file (BadZipFile).
Outcomes(dep) ==
    (IF dep.name \in server THEN {"ok", "BadZipFile"} ELSE {"HTTPError"}) \cup {"URLError"}

\* Dependency.get, lines 54-60: the exceptions its except clause handles.
GetHandles(outcome) == outcome = "HTTPError"

\* Dependency.headers, lines 67-74: the directory the archive is extracted to.
HeadersDir(dep) ==
    join(join(join(INSTALL_ROOT, <<"h","e","a","d","e","r","s">>), dep.category),
         Lower(Replace(dep.name, <<"-","c","p","p">>, <<>>)))

\* ZipFile.extractall(dest): every member is written below dest, with the
\* directories it needs.
extractall(F, dest, members) ==
    LET new == {join(dest, m) : m \in members}
    IN  [f \in DOMAIN F \cup new |-> IF f \in new THEN <<>> ELSE F[f]]

\* Dependency.install, lines 77-79, with headers and get: the file system
\* after it and the exception that leaves it, for one outcome of the request.
DependencyInstall(F, dep, outcome) ==
    IF outcome = "ok" THEN [exc |-> "none", fs |-> extractall(F, HeadersDir(dep), ARCHIVE)]
    ELSE IF GetHandles(outcome) THEN [exc |-> "none", fs |-> F]
    ELSE [exc |-> outcome, fs |-> F]

----------------------------------------------------------------------------
(* def install, lines 122-172. *)

\* Lines 125-134.
NiDependency(library) ==
    [url |-> FRCMAVEN \o <<"n","i","-","l","i","b","r","a","r","i","e","s">>, category |-> <<"n","i">>, name |-> library,
     version |-> NI_VERSION, shared |-> TRUE]

\* Lines 136-145.
WpilibDependency(library) ==
    [url |-> FRCMAVEN \o library, category |-> <<"w","p","i","l","i","b">>, name |-> library \o <<"-","c","p","p">>,
     version |-> WPILIB_VERSION, shared |-> FALSE]

BuiltinDependencies ==
    [k \in 1..Len(NI_LIBRARIES) |-> NiDependency(NI_LIBRARIES[k])]
        \o [k \in 1..Len(WPILIB_LIBRARIES) |-> WpilibDependency(WPILIB_LIBRARIES[k])]

\* obj[key] raises KeyError
Lacks(obj, key) == key \notin DOMAIN obj

\* Lines 151-163 with the URL of the manifest built before the version is
\* looked at: mavenUrls[0] is read for every entry.
EntryRaisesEager(vendordep, d) ==
    \/ Lacks(d, "version")
    \/ Lacks(vendordep, "mavenUrls")
    \/ vendordep.mavenUrls = <<>>
    \/ Lacks(d, "groupId")
    \/ Lacks(vendordep, "name")
    \/ Lacks(d, "artifactId")
    \/ Lacks(d, "sharedLibrary")

\* Lines 151-163: whether building the Dependency of entry d raises, the
\* keyword arguments being evaluated in order and the conditional
\* expressions condition first.
EntryRaises(vendordep, d) ==
    \/ Lacks(d, "version")
    \/ /\ d.version # <<"w","p","i","l","i","b">>
       /\ \/ Lacks(vendordep, "mavenUrls")
          \/ vendordep.mavenUrls = <<>>
          \/ Lacks(d, "groupId")
    \/ Lacks(vendordep, "name")
    \/ Lacks(d, "artifactId")
    \/ Lacks(d, "sharedLibrary")

\* Lines 152-156.
EntryUrl(vendordep, d) ==
    IF d.version # <<"w","p","i","l","i","b">>
    THEN RemoveSuffix(vendordep.mavenUrls[1], <<"/">>) \o <<"/">>
             \o Replace(d.groupId, <<".">>, <<"/">>)
    ELSE FRCMAVEN \o <<"w","p","i","l","i","b","N","e","w","C","o","m","m","a","n","d","s">>

\* Lines 159-161.
EntryVersion(d) == IF d.version # <<"w","p","i","l","i","b">> THEN d.version ELSE WPILIB_VERSION

\* Lines 151-163.
EntryDependency(vendordep, d) ==
    [url |-> EntryUrl(vendordep, d),
     category |-> until(Lower(vendordep.name), <<"-">>, TRUE),
     name |-> d.artifactId,
     version |-> EntryVersion(d),
     shared |-> d.sharedLibrary]

RECURSIVE AddEntries(_, _, _)
\* Lines 149-166: the loop over the entries, left by the first exception.
AddEntries(deps, vendordep, entries) ==
    IF entries = <<>> THEN deps
    ELSE IF EntryRaises(vendordep, entries[1]) THEN deps
    ELSE AddEntries(Append(deps, EntryDependency(vendordep, entries[1])), vendordep,
                    Tail(entries))

\* Lines 148-166: one manifest, under try ... except: pass.
AddVendordep(deps, vendordep) ==
    IF Lacks(vendordep, "cppDependencies") THEN deps
    ELSE AddEntries(deps, vendordep, vendordep.cppDependencies)

----------------------------------------------------------------------------
(* def generate_header_with_all_includes, lines 82-113. *)

\* Line 88: the directories the walk passes over.
SkippedRoot(root) == In(<<"E","i","g","e","n">>, root) \/ In(<<"n","t","c","o","r","e">>, root) \/ In(<<"c","s","c","o","r","e">>, root)

\* relpath(root, start), for a root at or below start
relpath(root, start) == IF root = start THEN <<".">> ELSE From(root, Len(start) + 1)

\* Lines 92-95: at most two leading segments are cut off.
CutSegment(root) == From(root, Index(root, <<"/">>) + 1)

NormalizedRoot(root) ==
    LET rel == relpath(root, join(INSTALL_ROOT, <<"h","e","a","d","e","r","s">>))
    IN  IF ~In(<<"/">>, rel) THEN rel
        ELSE IF ~In(<<"/">>, CutSegment(rel)) THEN CutSegment(rel)
        ELSE CutSegment(CutSegment(rel))

\* Lines 100-105: the filter, root being the normalized root.
Included(f, root) ==
    /\ EndsWith(f, <<".","h">>)
    /\ ~(f = <<"M","o","v","i","n","g","A","v","e","r","a","g","e",".","h">> /\ root = <<"c","t","r","e","/","p","h","o","e","n","i","x","/","s","i","g","n","a","l","s">>)
    /\ ~(f = <<"u","v",".","h">> /\ root = <<"w","p","i","u","t","i","l">>)
    /\ ~StartsWith(root, <<"u","v">>)
    /\ f # <<"W","P","I","L","i","b","V","e","r","s","i","o","n",".","h">>
    /\ ~In(<<"j","n","i">>, Lower(f))

\* filter(...), line 99
Filter(files, root) ==
    LET F[k \in 0..Len(files)] ==
            IF k = 0 THEN <<>>
            ELSE IF Included(files[k], root) THEN Append(F[k - 1], files[k])
            ELSE F[k - 1]
    IN  F[Len(files)]

\* Lines 88-108: what one directory of the walk adds to includes.
IncludesOf(entry) ==
    IF SkippedRoot(entry.root) THEN <<>>
    ELSE LET root == NormalizedRoot(entry.root)
             kept == Filter(entry.files, root)
         IN  [k \in 1..Len(kept) |-> join(root, Replace(kept[k], <<"\\">>, <<"/">>))]

\* Lines 86-108.
Includes(F) ==
    LET entries == walk(F, join(INSTALL_ROOT, <<"h","e","a","d","e","r","s">>))
    IN  Flatten([k \in 1..Len(entries) |-> IncludesOf(entries[k])])

WARNING == <<"/","*"," ","T","H","I","S"," ","I","S"," ","A","N"," ","A","U","T","O","M","A","T","I","C","A","L","L","Y"," ","G","E","N","E","R","A","T","E","D"," ","F","I","L","E","."," ","Y","O","U"," ","S","H","O","U","L","D","N","'","T"," ","E","D","I","T"," ","I","T","."," ","*","/","\n">>

IncludeLine(include) == <<"#","i","n","c","l","u","d","e"," ","<">> \o include \o <<">">>

\* Lines 110-113: the text of IncludeAll.h.
IncludeAllText(includes) ==
    WARNING \o Join(<<"\n">>, [k \in 1..Len(includes) |-> IncludeLine(includes[k])])

\* generate_header_with_all_includes(path): the file system after it, or the
\* error it raises.
generate_header_with_all_includes(F, path) ==
    IF ~isdir(F, path) THEN [err |-> "none", fs |-> F]
    ELSE write(F, join(path, <<"I","n","c","l","u","d","e","A","l","l",".","h">>), IncludeAllText(Includes(F)))

----------------------------------------------------------------------------
(* def create_compile_flags, lines 175-213. *)

LibraryDir(category, library) ==
    join(join(join(INSTALL_ROOT, <<"h","e","a","d","e","r","s">>), category), library)

\* Lines 183-187, 197.
FlagLine(path) == <<"-","I">> \o Replace(path, <<"\\">>, <<"/">>) \o <<"\n">>

\* Lines 182-187: the lines of one category.
LibraryFlags(category, libraries) ==
    Flatten([k \in 1..Len(libraries) |-> FlagLine(LibraryDir(category, libraries[k]))])

RECURSIVE CategoryFlags(_, _)
\* Lines 181-187: the lines of the categories, or the error a listing raises.
CategoryFlags(F, categories) ==
    IF categories = <<>> THEN [err |-> "none", contents |-> <<>>]
    ELSE LET listing == listdir(F, join(join(INSTALL_ROOT, <<"h","e","a","d","e","r","s">>), categories[1]))
             rest    == CategoryFlags(F, Tail(categories))
         IN  IF listing.err # "none" THEN [err |-> listing.err, contents |-> <<>>]
             ELSE IF rest.err # "none" THEN rest
             ELSE [err |-> "none",
                   contents |-> LibraryFlags(categories[1], listing.names) \o rest.contents]

RECURSIVE RowFlags(_, _)
\* Lines 194-197: the lines of the rows, up to the first row that raises.
RowFlags(directory, rows) ==
    IF rows = <<>> THEN <<>>
    ELSE IF ~In(<<"\"">>, rows[1]) THEN <<>>
    ELSE LET opened == From(rows[1], Index(rows[1], <<"\"">>) + 1)
         IN  IF ~In(<<"\"">>, opened) THEN <<>>
             ELSE FlagLine(join(directory, Upto(opened, Index(opened, <<"\"">>))))
                      \o RowFlags(directory, Tail(rows))

\* rows[1:-1]
Inner(rows) == SubSeq(rows, 2, Len(rows) - 1)

\* Lines 189-199: what build.gradle adds to contents, under try ... except: pass.
GradleFlags(F, directory) ==
    LET buildfile == abspath(join(directory, <<"b","u","i","l","d",".","g","r","a","d","l","e">>))
    IN  IF buildfile \notin DOMAIN F THEN <<>>
        ELSE IF ~In(<<"e","x","p","o","r","t","e","d","H","e","a","d","e","r","s">>, F[buildfile]) THEN <<>>
        ELSE LET build == From(F[buildfile], Index(F[buildfile], <<"e","x","p","o","r","t","e","d","H","e","a","d","e","r","s">>))
             IN  IF ~In(<<"}">>, build) THEN <<>>
                 ELSE RowFlags(directory,
                               Inner(Split(Upto(build, Index(build, <<"}">>)), <<"\n">>)))

\* Lines 201-202 in the other order.
TrailerSwapped == <<"-","x","c","+","+","\n">> \o <<"-","s","t","d","=","c","+","+","1","7","\n">>

\* Lines 201-202.
TRAILER == <<"-","s","t","d","=","c","+","+","1","7","\n">> \o <<"-","x","c","+","+","\n">>

RECURSIVE WriteLibraries(_, _, _, _)
\* Lines 208-213: the writes into the libraries of one category.
WriteLibraries(F, category, libraries, contents) ==
    IF libraries = <<>> THEN [err |-> "none", fs |-> F]
    ELSE LET done == write(F, join(LibraryDir(category, libraries[1]), <<"c","o","m","p","i","l","e","_","f","l","a","g","s",".","t","x","t">>),
                           contents)
         IN  IF done.err # "none" THEN done
             ELSE WriteLibraries(done.fs, category, Tail(libraries), contents)

RECURSIVE WriteCategories(_, _, _)
\* Lines 207-213.
WriteCategories(F, categories, contents) ==
    IF categories = <<>> THEN [err |-> "none", fs |-> F]
    ELSE LET listing == listdir(F, join(join(INSTALL_ROOT, <<"h","e","a","d","e","r","s">>), categories[1]))
         IN  IF listing.err # "none" THEN [err |-> listing.err, fs |-> F]
             ELSE LET done == WriteLibraries(F, categories[1], listing.names, contents)
                  IN  IF done.err # "none" THEN done
                      ELSE WriteCategories(done.fs, Tail(categories), contents)

\* Lines 179-202: the text of compile_flags.txt, or the error raised on the way.
FlagsText(F, directory) ==
    LET top == listdir(F, join(INSTALL_ROOT, <<"h","e","a","d","e","r","s">>))
        cats == CategoryFlags(F, top.names)
    IN  IF top.err # "none" THEN [err |-> top.err, contents |-> <<>>]
        ELSE IF cats.err # "none" THEN cats
        ELSE [err |-> "none",
              contents |-> cats.contents \o GradleFlags(F, directory) \o TRAILER]

\* create_compile_flags(directory): the file system after it and the error
\* that leaves it.
create_compile_flags(F, directory) ==
    LET text == FlagsText(F, directory)
        own  == write(F, join(directory, <<"c","o","m","p","i","l","e","_","f","l","a","g","s",".","t","x","t">>), text.contents)
        top  == listdir(own.fs, join(INSTALL_ROOT, <<"h","e","a","d","e","r","s">>))
    IN  IF text.err # "none" THEN [err |-> text.err, fs |-> F]
        ELSE IF own.err # "none" THEN own
        ELSE IF top.err # "none" THEN [err |-> top.err, fs |-> own.fs]
        ELSE WriteCategories(own.fs, top.names, text.contents)

----------------------------------------------------------------------------
(* The entry point, lines 216-230, and the steps of a run. *)

\* argv[k] of Python, which counts from 0
PyArgv(k) == argv[k + 1]

\* Line 216 without its "not": install() whatever the install root.
NeedsInstallAlways(F) == TRUE

\* Line 216.
NeedsInstall(F) == ~exists(F, INSTALL_ROOT)

\* Line 219.
TwoArguments == Len(argv) > 2

\* Lines 221 and 227: the directory create_compile_flags works on (line 177).
Directory == IF TwoArguments THEN PyArgv(2) ELSE abspath(<<".">>)

\* Lines 223 and 229: the directory IncludeAll.h goes to.
Target == IF TwoArguments THEN PyArgv(1) ELSE <<".">>

\* Lines 216-217: install() is called when the install root is absent.
Main ==
    /\ pc = "main"
    /\ IF NeedsInstall(fs)
       THEN pc' = "install" /\ calls' = Append(calls, "install")
       ELSE pc' = "generate" /\ calls' = calls
    /\ UNCHANGED <<argv, VENDORDEPS, server, fs, dependencies, v, i, requested, exc,
                   startfs, history>>

\* Lines 123-145: the built-in libraries.
InstallBuiltin ==
    /\ pc = "install"
    /\ dependencies' = BuiltinDependencies
    /\ v' = 0
    /\ pc' = IF VENDORDEPS = <<>> THEN "loop" ELSE "vendordeps"
    /\ UNCHANGED <<argv, VENDORDEPS, server, fs, i, requested, calls, exc, startfs, history>>

\* Lines 147-166: one vendor manifest.
InstallVendordep ==
    /\ pc = "vendordeps"
    /\ dependencies' = AddVendordep(dependencies, VENDORDEPS[v + 1])
    /\ v' = v + 1
    /\ pc' = IF v + 1 = Len(VENDORDEPS) THEN "loop" ELSE "vendordeps"
    /\ UNCHANGED <<argv, VENDORDEPS, server, fs, i, requested, calls, exc, startfs, history>>

\* Lines 168-172: one dependency of the loop; an exception that leaves
\* Dependency.install leaves install() and the script.
InstallDependency ==
    /\ pc = "loop"
    /\ \E outcome \in Outcomes(dependencies[i + 1]) :
          LET dep  == dependencies[i + 1]
              done == DependencyInstall(fs, dep, outcome)
          IN  /\ requested' = Append(requested, ArchiveUrl(dep, <<"h","e","a","d","e","r","s">>))
              /\ fs' = done.fs
              /\ exc' = done.exc
              /\ i' = IF done.exc = "none" THEN i + 1 ELSE i
              /\ pc' = IF done.exc # "none" THEN "raised"
                       ELSE IF i + 1 = Len(dependencies) THEN "generate"
                       ELSE "loop"
    /\ UNCHANGED <<argv, VENDORDEPS, server, dependencies, v, calls, startfs, history>>

\* Lines 221 and 227.
CreateCompileFlags ==
    /\ pc = "generate"
    /\ LET done == create_compile_flags(fs, Directory)
       IN  /\ fs' = done.fs
           /\ exc' = done.err
           /\ pc' = IF done.err = "none" THEN "header" ELSE "raised"
    /\ calls' = Append(calls, "create_compile_flags")
    /\ UNCHANGED <<argv, VENDORDEPS, server, dependencies, v, i, requested, startfs, history>>

\* Lines 223-224 and 229-230.
GenerateHeader ==
    /\ pc = "header"
    /\ LET done == generate_header_with_all_includes(fs, Target)
       IN  /\ fs' = done.fs
           /\ exc' = done.err
           /\ pc' = IF done.err = "none" THEN "done" ELSE "raised"
    /\ calls' = Append(calls, "generate_header_with_all_includes")
    /\ UNCHANGED <<argv, VENDORDEPS, server, dependencies, v, i, requested, startfs, history>>

\* The tool is started again, with the same arguments, after a run that
\* reached its end.
Rerun ==
    /\ pc = "done"
    /\ Len(history) + 1 < MaxRuns
    /\ history' = Append(history, [startfs |-> startfs, fs |-> fs, requested |-> requested,
                                   calls |-> calls])
    /\ startfs' = fs
    /\ pc' = "main"
    /\ dependencies' = <<>>
    /\ v' = 0
    /\ i' = 0
    /\ requested' = <<>>
    /\ calls' = <<>>
    /\ UNCHANGED <<argv, VENDORDEPS, server, fs, exc>>

Next ==
    \/ Main
    \/ InstallBuiltin
    \/ InstallVendordep
    \/ InstallDependency
    \/ CreateCompileFlags
    \/ GenerateHeader
    \/ Rerun

----------------------------------------------------------------------------
(* The states a run starts in. *)

SCRIPT == <<"m","a","i","n",".","p","y">>

\* A library directory of the cache, as an argument.
LIB == LibraryDir(<<"n","i">>, <<"v","i","s","a">>)

\* The command lines: no argument, one, or two.
Arguments == {PROJ, MISSING, LIB}
CommandLines == {<<SCRIPT>> \o args : args \in SeqsUpTo(Arguments, 2)}

\* The entries of a manifest's cppDependencies: one with a literal version,
\* one with the reserved version, and ones that lack a field.
LiteralEntry ==
    [groupId |-> <<"c","o","m",".","c","t","r","e",".","p","h","o","e","n","i","x">>, artifactId |-> <<"a","p","i","-","c","p","p">>, version |-> <<"5",".","2","0",".","2">>,
     sharedLibrary |-> TRUE]
ReservedEntry ==
    [groupId |-> <<"e","d","u",".","w","p","i",".","f","i","r","s","t",".","w","p","i","l","i","b","N","e","w","C","o","m","m","a","n","d","s">>, artifactId |-> <<"w","p","i","l","i","b","N","e","w","C","o","m","m","a","n","d","s","-","c","p","p">>,
     version |-> <<"w","p","i","l","i","b">>, sharedLibrary |-> FALSE]
NamelessEntry ==
    [groupId |-> <<"c","o","m",".","c","t","r","e",".","p","h","o","e","n","i","x">>, version |-> <<"5",".","2","0",".","2">>, sharedLibrary |-> TRUE]
Entries == {LiteralEntry, ReservedEntry, NamelessEntry}

MAVEN == <<"h","t","t","p","s",":","/","/","m","a","v","e","n",".","c","t","r","-","e","l","e","c","t","r","o","n","i","c","s",".","c","o","m","/","r","e","l","e","a","s","e","/">>

\* The manifests: with or without a name, with no, an empty or a one-element
\* mavenUrls, with no cppDependencies or one of at most MaxEntries entries.
Manifests ==
    {named @@ urls @@ deps :
        named \in {<<>>, [name |-> <<"C","T","R","E","-","P","h","o","e","n","i","x">>]},
        urls \in {<<>>, [mavenUrls |-> <<>>], [mavenUrls |-> <<MAVEN>>]},
        deps \in {<<>>} \cup {[cppDependencies |-> es] : es \in SeqsUpTo(Entries, MaxEntries)}}

GoodManifest ==
    [name |-> <<"C","T","R","E","-","P","h","o","e","n","i","x">>, mavenUrls |-> <<MAVEN>>,
     cppDependencies |-> <<LiteralEntry>>]

\* The header files a cache that exists at start is made of, below headers/.
HeaderFiles ==
    {<<"n","i","/","v","i","s","a","/","a",".","h">>,
     <<"n","i","/","v","i","s","a","/","x","/","y","/","z",".","h">>,
     <<"n","i","/","v","i","s","a","/","r","e","a","d","m","e",".","t","x","t">>,
     <<"w","p","i","l","i","b","/","w","p","i","l","i","b","c","/","f","r","c","/","b",".","h">>,
     <<"w","p","i","l","i","b","/","w","p","i","m","a","t","h","/","E","i","g","e","n","/","C","o","r","e",".","h">>,
     <<"w","p","i","l","i","b","/","w","p","i","m","a","t","h","/","E","i","g","e","n","3","/","c",".","h">>,
     <<"w","p","i","l","i","b","/","h","a","l","/","h","a","l","/","W","P","I","L","i","b","V","e","r","s","i","o","n",".","h">>,
     <<"w","p","i","l","i","b","/","h","a","l","/","h","a","l","/","H","A","L","J","N","I",".","h">>,
     <<"w","p","i","l","i","b","/","w","p","i","u","t","i","l","/","u","v",".","h">>,
     <<"w","p","i","l","i","b","/","w","p","i","u","t","i","l","/","u","v","/","e",".","h">>,
     <<"c","t","r","e","/","a","p","i","/","c","t","r","e","/","p","h","o","e","n","i","x","/","s","i","g","n","a","l","s","/","M","o","v","i","n","g","A","v","e","r","a","g","e",".","h">>}

\* The file system of a cache made of the header files S.
Cache(S) == [f \in {join(HEADERS, h) : h \in S} |-> <<>>]

Caches == {Cache(S) : S \in {T \in SUBSET HeaderFiles : Cardinality(T) \in 1..MaxFiles}}

\* The rows of an exportedHeaders block: a quoted path, no quote, one quote.
Rows == {<<" "," ","s","r","c","D","i","r"," ","\"","i","n","c","\"">>, <<" "," ","/","/"," ","n","o","n","e">>, <<" "," ","s","r","c","D","i","r"," ","\"","i","n","c">>}

\* The texts of build.gradle: a block of rows, a text without the block, a
\* block that is not closed.
Block(rows) ==
    <<"e","x","p","o","r","t","e","d","H","e","a","d","e","r","s"," ","{","\n">> \o Flatten([k \in 1..Len(rows) |-> rows[k] \o <<"\n">>])
        \o <<"}","\n">>
BuildTexts ==
    {Block(rows) : rows \in SeqsUpTo(Rows, MaxRows)}
        \cup {<<"m","o","d","e","l"," ","{","\n","}","\n">>, <<"e","x","p","o","r","t","e","d","H","e","a","d","e","r","s"," ","{","\n"," "," ","s","r","c","D","i","r"," ","\"","i","n","c","\"","\n">>}

\* The file systems outside the cache: no build.gradle, or one in CWD or PROJ.
Builds(texts) ==
    {<<>>} \cup {[f \in {join(d, <<"b","u","i","l","d",".","g","r","a","d","l","e">>)} |-> t] : d \in OutsideDirs, t \in texts}

InitFrom(lines, manifests, servers, caches, builds) ==
    /\ argv \in lines
    /\ VENDORDEPS \in manifests
    /\ server \in servers
    /\ \E cache \in caches, build \in builds : fs = cache @@ build
    /\ startfs = fs
    /\ pc = "main"
    /\ dependencies = <<>>
    /\ v = 0
    /\ i = 0
    /\ requested = <<>>
    /\ calls = <<>>
    /\ exc = "none"
    /\ history = <<>>

\* The artifacts the remote may serve a headers archive for.
Served == {<<"v","i","s","a">>, <<"w","p","i","u","t","i","l","-","c","p","p">>, <<"a","p","i","-","c","p","p">>}

Init ==
    InitFrom(CommandLines, {<<>>, <<GoodManifest>>}, SUBSET Served,
             {<<>>, Cache({<<"n","i","/","v","i","s","a","/","a",".","h">>}), Cache({<<"w","p","i","l","i","b","/","w","p","i","l","i","b","c","/","f","r","c","/","b",".","h">>})},
             Builds({Block(<<<<" "," ","s","r","c","D","i","r"," ","\"","i","n","c","\"">>>>)}))

Spec == Init /\ [][Next]_vars

\* The manifest lists the loader is examined on: any manifest first, then
\* well-formed and malformed ones.
ReservedManifest ==
    [name |-> <<"N","e","w","C","o","m","m","a","n","d","s">>, mavenUrls |-> <<>>, cppDependencies |-> <<ReservedEntry>>]
BrokenManifest ==
    [name |-> <<"C","T","R","E","-","P","h","o","e","n","i","x">>, mavenUrls |-> <<MAVEN>>,
     cppDependencies |-> <<LiteralEntry, NamelessEntry>>]
Followers == {ReservedManifest, BrokenManifest}
ManifestLists ==
    {<<>>} \cup {<<m>> \o rest : m \in Manifests, rest \in SeqsUpTo(Followers, MaxManifests - 1)}

InitManifest ==
    InitFrom({<<SCRIPT>>}, ManifestLists, {{<<"v","i","s","a">>}}, {<<>>}, {<<>>})

SpecManifest == InitManifest /\ [][Next]_vars

\* The caches the aggregator is examined on, and the command lines that send
\* IncludeAll.h to the current directory, to PROJ, into the cache and nowhere.
InitHeaders ==
    InitFrom({<<SCRIPT>>, <<SCRIPT, PROJ, PROJ>>, <<SCRIPT, LIB, PROJ>>, <<SCRIPT, MISSING, PROJ>>},
             {<<GoodManifest>>}, {{<<"v","i","s","a">>}}, {<<>>} \cup Caches, {<<>>})

SpecHeaders == InitHeaders /\ [][Next]_vars

\* The build.gradle texts the flags generator is examined on.
InitGradle ==
    InitFrom({<<SCRIPT>>, <<SCRIPT, PROJ, PROJ>>, <<SCRIPT, PROJ, LIB>>},
             {<<GoodManifest>>}, {{<<"v","i","s","a">>}},
             {<<>>, Cache({<<"n","i","/","v","i","s","a","/","a",".","h">>}),
              Cache({<<"n","i","/","v","i","s","a","/","a",".","h">>, <<"w","p","i","l","i","b","/","w","p","i","l","i","b","c","/","f","r","c","/","b",".","h">>})},
             Builds(BuildTexts))

SpecGradle == InitGradle /\ [][Next]_vars

----------------------------------------------------------------------------
(* What the claims speak of. *)

\* The run has ended, by reaching the end of the script or by an exception.
Terminated == pc \in {"done", "raised"}

\* install() was called in this run and has built its list.
ListBuilt == "install" \in Range(calls) /\ pc \notin {"install", "vendordeps"}

\* The two output files of this run.
FlagsFile == abspath(join(Directory, <<"c","o","m","p","i","l","e","_","f","l","a","g","s",".","t","x","t">>))
IncludeAllFile == abspath(join(Target, <<"I","n","c","l","u","d","e","A","l","l",".","h">>))

\* The install root was present when this run, and when the run before it, started.
ReadyAtStart == exists(startfs, INSTALL_ROOT)
Previous == history[Len(history)]
ReadyBefore == history # <<>> /\ exists(Previous.startfs, INSTALL_ROOT)

\* The directory lies in the headers tree.
InHeaders(d) == abspath(d) = HEADERS \/ StartsWith(abspath(d), HEADERS \o <<"/">>)

\* The files of the headers tree, as paths relative to it, but for the
\* IncludeAll.h this run writes.
HeaderPaths(F) ==
    {From(f, Len(HEADERS) + 1) : f \in Below(F, HEADERS) \ {IncludeAllFile}}

\* headers/<category>/<library> of every file that lies in a library.
LibraryDirs(F) ==
    {join(join(HEADERS, Split(h, <<"/">>)[1]), Split(h, <<"/">>)[2]) :
        h \in {g \in HeaderPaths(F) : Len(Split(g, <<"/">>)) >= 3}}

\* The lines of a text.
Lines(text) == Split(text, <<"\n">>)

\* The #include lines of IncludeAll.h.
IncludeLines ==
    IF fs[IncludeAllFile] = WARNING THEN <<>>
    ELSE Lines(From(fs[IncludeAllFile], Len(WARNING)))

\* The segments of a relative path: its directories, its file name, and
\* what follows <category>/<library>.
Dirs(h) == SubSeq(Split(h, <<"/">>), 1, Len(Split(h, <<"/">>)) - 1)
Name(h) == Split(h, <<"/">>)[Len(Split(h, <<"/">>))]
Rest(h) == Join(<<"/">>, SubSeq(Split(h, <<"/">>), 3, Len(Split(h, <<"/">>))))

\* The normalized root of the directory a header file lies in.
RootOf(h) == NormalizedRoot(join(HEADERS, Join(<<"/">>, Dirs(h))))

\* The exclusion rules as C7 lists them.
ExcludedByRule(h) ==
    \/ \E k \in 1..Len(Dirs(h)) : Dirs(h)[k] \in {<<"E","i","g","e","n">>, <<"n","t","c","o","r","e">>, <<"c","s","c","o","r","e">>}
    \/ Name(h) = <<"W","P","I","L","i","b","V","e","r","s","i","o","n",".","h">>
    \/ In(<<"j","n","i">>, Lower(Name(h)))
    \/ Name(h) = <<"M","o","v","i","n","g","A","v","e","r","a","g","e",".","h">> /\ RootOf(h) = <<"c","t","r","e","/","p","h","o","e","n","i","x","/","s","i","g","n","a","l","s">>
    \/ Name(h) = <<"u","v",".","h">> /\ RootOf(h) = <<"w","p","i","u","t","i","l">>
    \/ StartsWith(RootOf(h), <<"u","v">>)

\* The header files no rule excludes.
EligibleHeaders(F) == {h \in HeaderPaths(F) : EndsWith(h, <<".","h">>) /\ ~ExcludedByRule(h)}

\* The aggregator has written IncludeAll.h outside the headers tree.
Aggregated == pc = "done" /\ isdir(fs, Target) /\ ~InHeaders(Target)

\* The flags generator has returned.
FlagsWritten == pc \in {"header", "done"}

----------------------------------------------------------------------------
(* The claims. *)

\* C1: with exactly one positional argument, IncludeAll.h is written to the
\* directory that argument names and compile_flags.txt to the current
\* directory.
C1_OneArgumentIsTheTarget ==
    (Len(argv) = 2 /\ pc = "done" /\ isdir(fs, PyArgv(1)))
        => /\ abspath(join(PyArgv(1), <<"I","n","c","l","u","d","e","A","l","l",".","h">>)) \in DOMAIN fs
           /\ join(CWD, <<"c","o","m","p","i","l","e","_","f","l","a","g","s",".","t","x","t">>) \in DOMAIN fs

\* C2: once the installer loop is left, every dependency of the list has been
\* requested exactly once, in list order, and no failed fetch has raised.
C2_EveryDependencyAttempted ==
    (ListBuilt /\ pc # "loop")
        => /\ requested = [k \in 1..Len(dependencies) |->
                              ArchiveUrl(dependencies[k], <<"h","e","a","d","e","r","s">>)]
           /\ exc \notin {"URLError", "BadZipFile", "HTTPError"}

\* A manifest that lacks cppDependencies or a field of one of its entries.
Malformed(vendordep) ==
    \/ "cppDependencies" \notin DOMAIN vendordep
    \/ \E e \in 1..Len(vendordep.cppDependencies) :
          ~({"groupId", "artifactId", "version", "sharedLibrary"}
                \subseteq DOMAIN vendordep.cppDependencies[e])

\* C3: a malformed manifest contributes no dependency: every dependency
\* after the built-in ones is an entry of a manifest that is not malformed.
C3_MalformedContributesNothing ==
    ListBuilt =>
        \A k \in (Len(BuiltinDependencies) + 1)..Len(dependencies) :
            \E m \in 1..Len(VENDORDEPS) :
                /\ ~Malformed(VENDORDEPS[m])
                /\ \E e \in 1..Len(VENDORDEPS[m].cppDependencies) :
                      VENDORDEPS[m].cppDependencies[e].artifactId = dependencies[k].name

\* A header none of whose directories has Eigen, ntcore or cscore in its
\* name, so that it is eligible however the first rule is read.
Unnamed(h) ==
    \A k \in 1..Len(Dirs(h)) :
        ~(In(<<"E","i","g","e","n">>, Dirs(h)[k]) \/ In(<<"n","t","c","o","r","e">>, Dirs(h)[k]) \/ In(<<"c","s","c","o","r","e">>, Dirs(h)[k]))

\* C4: every eligible header headers/<category>/<library>/<rest>/<file>.h is
\* included as <rest>/<file>.h, category and library cut off.
C4_CategoryAndLibraryStripped ==
    Aggregated =>
        \A h \in EligibleHeaders(fs) :
            (Len(Split(h, <<"/">>)) >= 3 /\ Unnamed(h))
                => IncludeLine(Rest(h)) \in Range(IncludeLines)

\* C7: a .h file is left out of IncludeAll.h exactly when a listed rule
\* excludes it: the #include lines are those of the files no rule excludes,
\* one line each.
C7_ExcludedIffRule ==
    Aggregated =>
        /\ Len(IncludeLines) = Cardinality(EligibleHeaders(fs))
        /\ Range(IncludeLines) =
               {IncludeLine(join(RootOf(h), Name(h))) : h \in EligibleHeaders(fs)}

\* C8: without a build.gradle in the project directory compile_flags.txt is
\* one -I line per headers/<category>/<library> directory, then -std=c++17,
\* then -xc++, and nothing else; every library directory holds the same text.
C8_FlagsWithoutDescriptor ==
    (FlagsWritten /\ ~exists(fs, join(Directory, <<"b","u","i","l","d",".","g","r","a","d","l","e">>)))
        => LET text  == fs[FlagsFile]
               lines == Lines(text)
               n     == Cardinality(LibraryDirs(fs))
           IN  /\ Len(lines) = n + 3
               /\ {lines[k] : k \in 1..n} = {<<"-","I">> \o d : d \in LibraryDirs(fs)}
               /\ lines[n + 1] = <<"-","s","t","d","=","c","+","+","1","7">>
               /\ lines[n + 2] = <<"-","x","c","+","+">>
               /\ lines[n + 3] = <<>>
               /\ \A d \in LibraryDirs(fs) : fs[join(d, <<"c","o","m","p","i","l","e","_","f","l","a","g","s",".","t","x","t">>)] = text

\* C8's case: the flags of a cache of two libraries, without a build.gradle.
C8_Witness ==
    /\ pc = "done"
    /\ ~exists(fs, join(Directory, <<"b","u","i","l","d",".","g","r","a","d","l","e">>))
    /\ Cardinality(LibraryDirs(fs)) >= 2

\* The rows of the exportedHeaders block of a build.gradle text.
BlockRows(text) ==
    LET build == From(text, Index(text, <<"e","x","p","o","r","t","e","d","H","e","a","d","e","r","s">>))
    IN  Inner(Lines(Upto(build, Index(build, <<"}">>))))

\* The number of quotes of a row.
Quotes(row) == Cardinality({k \in 1..Len(row) : row[k] = "\""})

\* The parse of build.gradle fails as C10 lists it: no file, no
\* exportedHeaders, no closing brace after it, or a row without a quoted string.
ParseFails(F, directory) ==
    LET buildfile == abspath(join(directory, <<"b","u","i","l","d",".","g","r","a","d","l","e">>))
    IN  \/ buildfile \notin DOMAIN F
        \/ ~In(<<"e","x","p","o","r","t","e","d","H","e","a","d","e","r","s">>, F[buildfile])
        \/ ~In(<<"}">>, From(F[buildfile], Index(F[buildfile], <<"e","x","p","o","r","t","e","d","H","e","a","d","e","r","s">>)))
        \/ \E k \in 1..Len(BlockRows(F[buildfile])) : Quotes(BlockRows(F[buildfile])[k]) < 2

\* C10: when the parse of build.gradle fails, compile_flags.txt is what it
\* is without a build.gradle: the library lines and the two trailer lines.
C10_ParseFailureAddsNothing ==
    (FlagsWritten /\ ParseFails(fs, Directory))
        => Len(Lines(fs[FlagsFile])) = Cardinality(LibraryDirs(fs)) + 3

\* C9: a run whose installer returned, or was skipped, ends only after the
\* flags generator and then the include aggregator have run to their end,
\* the project directory being there.
C9_BothGeneratorsBeforeExit ==
    (Terminated /\ "create_compile_flags" \in Range(calls) /\ isdir(startfs, Directory))
        => /\ pc = "done"
           /\ SubSeq(calls, Len(calls) - 1, Len(calls))
                  = <<"create_compile_flags", "generate_header_with_all_includes">>

\* An entry every field of which the loader reads is there.
Complete(vendordep, d) ==
    /\ "name" \in DOMAIN vendordep
    /\ {"groupId", "artifactId", "version", "sharedLibrary"} \subseteq DOMAIN d
    /\ d.version # <<"w","p","i","l","i","b">>
           => "mavenUrls" \in DOMAIN vendordep /\ vendordep.mavenUrls # <<>>

AllComplete ==
    \A m \in 1..Len(VENDORDEPS) :
        /\ "cppDependencies" \in DOMAIN VENDORDEPS[m]
        /\ \A e \in 1..Len(VENDORDEPS[m].cppDependencies) :
              Complete(VENDORDEPS[m], VENDORDEPS[m].cppDependencies[e])

\* The entries of all manifests, in order.
AllEntries == Flatten([m \in 1..Len(VENDORDEPS) |-> VENDORDEPS[m].cppDependencies])

\* C6: an entry with the reserved version "wpilib" becomes a dependency with
\* the fixed WPILib version and the fixed download location, whatever
\* mavenUrls holds; an entry with another version keeps it.
C6_ReservedVersion ==
    (ListBuilt /\ AllComplete)
        => LET vendor == SubSeq(dependencies, Len(BuiltinDependencies) + 1, Len(dependencies))
           IN  /\ Len(vendor) = Len(AllEntries)
               /\ \A k \in 1..Len(vendor) :
                     /\ vendor[k].name = AllEntries[k].artifactId
                     /\ IF AllEntries[k].version = <<"w","p","i","l","i","b">>
                        THEN /\ vendor[k].version = <<"2","0","2","2",".","1",".","1","-","b","e","t","a","-","2">>
                             /\ vendor[k].url = <<"h","t","t","p","s",":","/","/","f","r","c","m","a","v","e","n",".","w","p","i",".","e","d","u","/","u","i","/","a","p","i","/","v","1","/","d","o","w","n","l","o","a","d","?","r","e","p","o","K","e","y","=","r","e","l","e","a","s","e","&","p","a","t","h","=","e","d","u","/","w","p","i","/","f","i","r","s","t","/","w","p","i","l","i","b","N","e","w","C","o","m","m","a","n","d","s">>
                        ELSE vendor[k].version = AllEntries[k].version

\* C6's case: a reserved entry of a manifest whose mavenUrls is empty has
\* become a dependency.
C6_Witness ==
    /\ ListBuilt
    /\ AllComplete
    /\ \E m \in 1..Len(VENDORDEPS) :
          /\ "mavenUrls" \in DOMAIN VENDORDEPS[m]
          /\ VENDORDEPS[m].mavenUrls = <<>>
          /\ \E e \in 1..Len(VENDORDEPS[m].cppDependencies) :
                VENDORDEPS[m].cppDependencies[e].version = <<"w","p","i","l","i","b">>
    /\ \E k \in 1..Len(dependencies) : dependencies[k].name = <<"w","p","i","l","i","b","N","e","w","C","o","m","m","a","n","d","s","-","c","p","p">>

\* C5 as claimed: a run that finds the install root fetches nothing and
\* leaves both output files written, and a second such run leaves both with
\* the content the first left.
C5_ReadyRunRegenerates ==
    /\ ReadyAtStart => requested = <<>> /\ "install" \notin Range(calls)
    /\ (ReadyAtStart /\ pc = "done")
           => FlagsFile \in DOMAIN fs /\ IncludeAllFile \in DOMAIN fs
    /\ (ReadyAtStart /\ ReadyBefore /\ pc = "done")
           => /\ FlagsFile \in DOMAIN fs /\ IncludeAllFile \in DOMAIN fs
              /\ fs[FlagsFile] = Previous.fs[FlagsFile]
              /\ fs[IncludeAllFile] = Previous.fs[IncludeAllFile]

\* C5, amended: a run that finds the install root fetches and extracts
\* nothing; when it reaches its end and the target directory exists, both
\* output files are written; after two such runs in a row compile_flags.txt
\* has the content the first run left, and so has IncludeAll.h when the
\* target directory lies outside the headers tree.
C5_ReadyRunRegeneratesOutside ==
    /\ ReadyAtStart
           => /\ requested = <<>>
              /\ "install" \notin Range(calls)
              /\ \A f \in Below(fs, HEADERS) :
                    f \in DOMAIN startfs \/ f = IncludeAllFile \/ EndsWith(f, <<"/","c","o","m","p","i","l","e","_","f","l","a","g","s",".","t","x","t">>)
    /\ (ReadyAtStart /\ pc = "done" /\ isdir(fs, Target))
           => /\ FlagsFile \in DOMAIN fs /\ EndsWith(fs[FlagsFile], <<"-","s","t","d","=","c","+","+","1","7","\n","-","x","c","+","+","\n">>)
              /\ IncludeAllFile \in DOMAIN fs /\ StartsWith(fs[IncludeAllFile], WARNING)
    /\ (ReadyAtStart /\ ReadyBefore /\ pc = "done")
           => /\ fs[FlagsFile] = Previous.fs[FlagsFile]
              /\ (isdir(fs, Target) /\ ~InHeaders(Target))
                     => fs[IncludeAllFile] = Previous.fs[IncludeAllFile]

\* C5's case: the second of two runs that found the install root has ended,
\* its target directory outside the headers tree.
C5_Witness ==
    /\ ReadyAtStart
    /\ ReadyBefore
    /\ pc = "done"
    /\ isdir(fs, Target)
    /\ ~InHeaders(Target)
    /\ Len(IncludeLines) >= 1

====
